---- MODULE Spec2Model ----
(***************************************************************************)
(* Crop-disease inference: the long-lived daemon                           *)
(* (backend/scripts/predict_crop_disease_daemon.py), the one-shot CLI      *)
(* (backend/scripts/predict_crop_disease.py), their shared helpers, and    *)
(* split_stratified of backend/scripts/train_crop_disease.py.              *)
(*                                                                         *)
(* Scores are fixed-point numbers in thousandths (0.72 is 720).  Python's  *)
(* 0-based indices are kept as they are; a Python list is a TLA+ sequence  *)
(* and list[i] is seq[i + 1].                                              *)
(***************************************************************************)
EXTENDS Integers, Sequences, FiniteSets, TLC

VARIABLES
    program,      \* which script runs: "daemon", "cli" or a bare call of "load_labels"
    pc,           \* position of the process in main() / __main__
    environ,      \* os.environ: DISEASE_MODEL_PATH, DISEASE_LABELS_PATH
    args,         \* argparse input of the one-shot CLI (--model, --labels, --image)
    legacy_keras, \* TRUE when `import tf_keras` succeeded, FALSE when it is None
    labels_file,  \* the file at the labels path
    image_file,   \* the file at the --image path (CLI)
    stdin_bytes,  \* the bytes on the input stream of the CLI
    model,        \* local `model` of main()
    labels,       \* local `labels` of main()
    consumed,     \* the lines `for raw_line in sys.stdin` has delivered so far
    raw_line,     \* the line being handled
    main_request_id, \* local `request_id` of the daemon's main(); it outlives an iteration
    stdin_lines,  \* the lines of the daemon's input stream not yet delivered
    image_bytes,  \* local `image_bytes` of the CLI's main()
    stdout,       \* lines (daemon) or chunks (CLI) written to sys.stdout
    stderr,       \* what was written to sys.stderr
    exit_code,    \* -1 while the process runs, then its exit status
    calls,        \* the batches passed to model.predict by the last request
    loads,        \* the loader calls made so far, in order: the strategies
                  \* load_disease_model attempted, then "load_labels"
    image_paths,  \* split_stratified: argument image_paths
    split_labels, \* split_stratified: argument labels (one per path)
    val_split,    \* split_stratified: argument val_split, in percent
    grouped,      \* split_stratified: the classes not yet split, in dict order
    train_paths,  \* split_stratified: local train_paths
    train_labels, \* split_stratified: local train_labels
    val_paths,    \* split_stratified: local val_paths
    val_labels    \* split_stratified: local val_labels

splitVars == <<image_paths, split_labels, val_split, grouped,
               train_paths, train_labels, val_paths, val_labels>>

vars == <<program, pc, environ, args, legacy_keras, labels_file, image_file, stdin_bytes,
          model, labels, consumed, raw_line, main_request_id, stdin_lines, image_bytes,
          stdout, stderr, exit_code, calls, loads, splitVars>>

----------------------------------------------------------------------------
(* Bounds                                                                  *)

MaxLines == 2     \* input lines fed to one daemon run
MaxLabels == 3    \* length of a list in the labels file

----------------------------------------------------------------------------
(* Values: results of calls, exceptions, JSON values                       *)

Ok(v) == [ok |-> TRUE, val |-> v]
Raise(cls, msg) == [ok |-> FALSE, exc |-> [cls |-> cls, msg |-> msg]]

\* The classes that derive from Exception among those the code can raise.
ExceptionClasses ==
    {"ValueError", "JSONDecodeError", "AttributeError", "TypeError",
     "binascii.Error", "UnidentifiedImageError", "RuntimeError", "OSError",
     "FileNotFoundError", "UnicodeDecodeError", "InvalidArgumentError"}

JNull == [t |-> "null", v |-> ""]
JStr(s) == [t |-> "str", v |-> s]
JNum(s) == [t |-> "num", v |-> s]
JList(xs) == [t |-> "list", v |-> "", items |-> xs]
JDict(m) == [t |-> "dict", v |-> "", members |-> m]
NoText == [t |-> "garbage", v |-> ""]

\* Python truthiness of a parsed JSON value (`if x`, `not x`, `x and ...`).
Truthy(x) ==
    CASE x.t = "null" -> FALSE
      [] x.t = "str"  -> x.v # ""
      [] x.t = "num"  -> x.v # "0"
      [] x.t = "list" -> Len(x.items) > 0
      [] x.t = "dict" -> DOMAIN x.members # {}
      [] OTHER        -> TRUE

\* json.loads / json.load: raises on text that is not JSON, else the value.
json_loads(text) ==
    IF text.t = "garbage"
    THEN Raise("JSONDecodeError", "Expecting value: line 1 column 1 (char 0)")
    ELSE Ok(text)

\* payload.get(key): only a dict has .get; a missing key gives None.
payload_get(payload, key) ==
    IF payload.t # "dict"
    THEN Raise("AttributeError", "'" \o payload.t \o "' object has no attribute 'get'")
    ELSE IF key \in DOMAIN payload.members
         THEN Ok(payload.members[key])
         ELSE Ok(JNull)

----------------------------------------------------------------------------
(* Images and the scoring function                                         *)

Images == {"leafA", "leafB", "leafC", "leafD", "leafE", "leafF", "leafG"}

\* base64.b64decode on the value of the image field.
b64decode(image_b64) ==
    IF image_b64.t # "str"
    THEN Raise("TypeError", "argument should be a bytes-like object or ASCII string")
    ELSE CASE image_b64.v = "b64:leafA" -> Ok("leafA")
           [] image_b64.v = "b64:leafB" -> Ok("leafB")
           [] image_b64.v = "b64:leafC" -> Ok("leafC")
           [] image_b64.v = "b64:leafD" -> Ok("leafD")
           [] image_b64.v = "b64:leafE" -> Ok("leafE")
           [] image_b64.v = "b64:leafF" -> Ok("leafF")
           [] image_b64.v = "b64:leafG" -> Ok("leafG")
           [] image_b64.v = "b64:junk"  -> Ok("junk")
           [] image_b64.v = " "         -> Ok("")
           [] OTHER -> Raise("binascii.Error", "Incorrect padding")

View(img, transform) == [img |-> img, transform |-> transform]

\* build_views: decode, resize, then the three views in their fixed order.
build_views(bytes) ==
    IF bytes \notin Images
    THEN Raise("UnidentifiedImageError", "cannot identify image file")
    ELSE Ok(<< View(bytes, "identity"),
               View(bytes, "fliplr"),
               View(bytes, "clip*1.08") >>)

\* preprocess_view: the MobileNetV2 input normalisation of one view.
preprocess_view(view) == [view EXCEPT !.transform = @ \o "|mobilenet_v2"]

Models == {"m3", "m2"}

\* One row of scores, in thousandths, of a loaded model for one input array
\* (OTHER: the brightened view, or any array that is not a view scaled
\* once); <<>> stands for the model raising on that array.
ScoreRow(m, pview) ==
    LET i == pview.img
        t == pview.transform
    IN IF m = "m3" THEN
         CASE i = "leafA" -> <<100, 850, 50>>
           [] i = "leafB" -> <<720, 180, 100>>
           [] i = "leafC" ->
                (CASE t = "identity|mobilenet_v2" -> <<400, 350, 250>>
                   [] t = "fliplr|mobilenet_v2"   -> <<500, 300, 200>>
                   [] OTHER                       -> <<300, 400, 300>>)
           [] i = "leafD" ->
                (CASE t = "identity|mobilenet_v2" -> <<250, 50, 700>>
                   [] t = "fliplr|mobilenet_v2"   -> <<50, 50, 900>>
                   [] OTHER                       -> <<0, 200, 800>>)
           [] i = "leafE" ->
                (CASE t = "identity|mobilenet_v2" -> <<333, 333, 333>>
                   [] t = "fliplr|mobilenet_v2"   -> <<300, 330, 360>>
                   [] OTHER                       -> <<360, 330, 300>>)
           [] i = "leafF" -> <<>>
           [] OTHER ->
                (CASE t = "identity|mobilenet_v2" -> <<600, 300, 100>>
                   [] OTHER                       -> <<>>)
       ELSE
         CASE i = "leafA" -> <<50, 950>>
           [] i = "leafB" -> <<719, 281>>
           [] i = "leafC" ->
                (CASE t = "identity|mobilenet_v2" -> <<500, 500>>
                   [] t = "fliplr|mobilenet_v2"   -> <<200, 800>>
                   [] OTHER                       -> <<500, 500>>)
           [] i = "leafD" -> <<721, 279>>
           [] i = "leafE" -> <<0, 0>>
           [] i = "leafF" -> <<>>
           [] OTHER -> <<600, 400>>

\* model.predict(batch, verbose=0): one row per element of the batch, or the
\* model raises.
predict(m, batch) ==
    IF \E k \in 1..Len(batch) : ScoreRow(m, batch[k]) = <<>>
    THEN Raise("InvalidArgumentError", "Graph execution error")
    ELSE Ok([k \in 1..Len(batch) |-> ScoreRow(m, batch[k])])

----------------------------------------------------------------------------
(* numpy reductions                                                        *)

RECURSIVE SeqMax(_)
\* np.max of a non-empty vector.
SeqMax(s) ==
    IF Len(s) = 1 THEN s[1]
    ELSE LET m == SeqMax(Tail(s)) IN IF s[1] >= m THEN s[1] ELSE m

RECURSIVE ColumnSum(_, _)
ColumnSum(rows, j) ==
    IF Len(rows) = 0 THEN 0 ELSE rows[1][j] + ColumnSum(Tail(rows), j)

\* np.mean(rows, axis=0): the element-wise arithmetic mean of the rows.
MeanRows(rows) ==
    [j \in 1..Len(rows[1]) |-> ColumnSum(rows, j) \div Len(rows)]

\* As ArgMax, had ties been broken by the highest index.
ArgMaxLast(s) ==
    (CHOOSE k \in 1..Len(s) :
        /\ s[k] = SeqMax(s)
        /\ \A j \in (k + 1)..Len(s) : s[j] # SeqMax(s)) - 1

\* np.argmax: the first (0-based) index that holds the maximum.
ArgMax(s) ==
    (CHOOSE k \in 1..Len(s) :
        /\ s[k] = SeqMax(s)
        /\ \A j \in 1..(k - 1) : s[j] # SeqMax(s)) - 1

----------------------------------------------------------------------------
(* infer_scores: the confidence-gated ensemble                             *)

Threshold == 720

\* As Gate, had the comparison been strict.
GateStrict(single_scores) == SeqMax(single_scores) > Threshold

\* The gate `float(np.max(single_scores)) >= 0.72`.
Gate(single_scores) == SeqMax(single_scores) >= Threshold

\* The batch of the second pass: every view, preprocessed, in view order.
EnsembleBatch(views) == [k \in 1..Len(views) |-> preprocess_view(views[k])]

\* infer_scores(model, image_bytes): res is the returned score vector or the
\* exception raised, calls the batches handed to model.predict, in order.
infer_scores(m, bytes) ==
    LET built == build_views(bytes) IN
    IF ~built.ok THEN [res |-> built, calls |-> <<>>]
    ELSE
      LET views == built.val
          single == <<preprocess_view(views[1])>>
          first == predict(m, single)
      IN
      IF ~first.ok THEN [res |-> first, calls |-> <<single>>]
      ELSE IF Gate(first.val[1])
      THEN [res |-> Ok(first.val[1]), calls |-> <<single>>]
      ELSE
        LET batch == EnsembleBatch(views)
            second == predict(m, batch)
        IN
        IF ~second.ok THEN [res |-> second, calls |-> <<single, batch>>]
        ELSE [res |-> Ok(MeanRows(second.val)), calls |-> <<single, batch>>]

\* As PickLabel, had the synthesized name counted classes from 1.
PickLabelOneBased(lbls, best_index) ==
    IF Len(lbls) > 0 /\ best_index < Len(lbls)
    THEN lbls[best_index + 1]
    ELSE JStr("class_" \o ToString(best_index + 1))

\* labels[best_index] if labels and best_index < len(labels) else f"class_{best_index}"
PickLabel(lbls, best_index) ==
    IF Len(lbls) > 0 /\ best_index < Len(lbls)
    THEN lbls[best_index + 1]
    ELSE JStr("class_" \o ToString(best_index))

----------------------------------------------------------------------------
(* Loading                                                                 *)

\* What the two loaders do with the artifact at a model path.
ModelArtifact(path) ==
    CASE path = "models/crop.h5"   -> [legacy |-> TRUE, tf |-> TRUE, model |-> "m3"]
      [] path = "models/crop.keras" -> [legacy |-> FALSE, tf |-> TRUE, model |-> "m2"]
      [] OTHER                      -> [legacy |-> FALSE, tf |-> FALSE, model |-> "none"]

ModelPaths == {"models/crop.h5", "models/crop.keras", "models/absent.h5"}

RECURSIVE Join(_, _)
\* sep.join(parts)
Join(sep, parts) ==
    IF Len(parts) = 0 THEN ""
    ELSE IF Len(parts) = 1 THEN parts[1]
    ELSE parts[1] \o sep \o Join(sep, Tail(parts))

\* As load_disease_model, had the tf.keras loader been tried first.
load_disease_model_tf_first(legacy, model_path) ==
    LET art == ModelArtifact(model_path)
        err1 == <<"tf.keras loader failed: cannot load " \o model_path>>
        err2 == IF legacy
                THEN <<"tf_keras loader failed: cannot load " \o model_path>>
                ELSE <<>>
    IN
    IF art.tf
    THEN [res |-> Ok(art.model), tried |-> <<"tf.keras">>]
    ELSE IF legacy /\ art.legacy
    THEN [res |-> Ok(art.model), tried |-> <<"tf.keras", "tf_keras">>]
    ELSE [res |-> Raise("RuntimeError", Join(" | ", err1 \o err2)),
          tried |-> <<"tf.keras">> \o (IF legacy THEN <<"tf_keras">> ELSE <<>>)]

\* load_disease_model(model_path): res is the model returned or the
\* RuntimeError raised; tried lists the loaders called, in order.
load_disease_model(legacy, model_path) ==
    LET art == ModelArtifact(model_path)
        err1 == IF legacy /\ ~art.legacy
                THEN <<"tf_keras loader failed: cannot load " \o model_path>>
                ELSE <<>>
        err2 == <<"tf.keras loader failed: cannot load " \o model_path>>
    IN
    IF legacy /\ art.legacy
    THEN [res |-> Ok(art.model), tried |-> <<"tf_keras">>]
    ELSE IF art.tf
    THEN [res |-> Ok(art.model),
          tried |-> (IF legacy THEN <<"tf_keras">> ELSE <<>>) \o <<"tf.keras">>]
    ELSE [res |-> Raise("RuntimeError", Join(" | ", err1 \o err2)),
          tried |-> (IF legacy THEN <<"tf_keras">> ELSE <<>>) \o <<"tf.keras">>]

\* A file: whether open() finds it, whether its bytes read as UTF-8 text,
\* and the text.
File(exists, readable, text) == [exists |-> exists, readable |-> readable, text |-> text]

\* load_labels(labels_path), given the file at that path.
load_labels(file) ==
    IF ~file.exists THEN <<>>
    ELSE IF ~file.readable THEN <<>>
    ELSE LET parsed == json_loads(file.text) IN
         IF ~parsed.ok THEN <<>>
         ELSE IF parsed.val.t = "list" /\ Truthy(parsed.val)
              THEN parsed.val.items
              ELSE <<>>

----------------------------------------------------------------------------
(* The daemon: request lines and the body of the request loop              *)

EmptyText == [t |-> "empty", v |-> ""]
NoMembers == [k \in {} |-> JNull]

\* A raw input line: leading/trailing whitespace around a text.
Line(pad, text) == [pad |-> pad, text |-> text]
Request(members) == Line("", JDict(members))

Lines ==
    { Line("", EmptyText),
      Line("  ", EmptyText),
      Line("", NoText),
      Line("", JList(<<JNum("1")>>)),
      Request([id |-> JNum("42")]),
      Request(NoMembers),
      Request([id |-> JStr("a"), image |-> JStr("")]),
      Request([id |-> JNum("42"), image |-> JStr("@@@")]),
      Request([id |-> JStr("a"), image |-> JStr("b64:junk")]),
      Request([id |-> JNum("42"), image |-> JStr("b64:leafA")]),
      Request([id |-> JNull, image |-> JStr("b64:leafB")]),
      Request([image |-> JStr("b64:leafC")]),
      Request([id |-> JStr("a"), image |-> JStr("b64:leafD")]),
      Request([id |-> JNum("7"), image |-> JStr("b64:leafE")]),
      Request([id |-> JNum("42"), image |-> JStr("b64:leafF")]),
      Request([id |-> JStr("b"), image |-> JStr("b64:leafG")]) }

\* line = (raw_line or "").strip()
strip(raw) == raw.text

\* `if not line`
IsBlank(raw) == strip(raw).t = "empty"

ReadyLine == [type |-> "ready"]

\* The object the success branch prints.
SuccessResponse(request_id, lbls, scores_vec) ==
    LET best_index == ArgMax(scores_vec) IN
    [id |-> request_id,
     label |-> PickLabel(lbls, best_index),
     confidence |-> scores_vec[best_index + 1],
     scores |-> scores_vec]

\* The object the except branch prints.
ErrorResponse(request_id, error) == [id |-> request_id, error |-> error.msg]

\* As Catches, had the handler been written `except ValueError`.
CatchesValueErrorOnly(exc) == exc.cls \in {"ValueError", "JSONDecodeError"}

\* `except Exception`: the classes the request boundary catches.
Catches(exc) == exc.cls \in ExceptionClasses

\* As OnError, had the except branch printed "id": None.
OnErrorNullId(request_id, exc, made) ==
    IF exc.cls \in ExceptionClasses
    THEN [out |-> <<[id |-> JNull, error |-> exc.msg]>>, calls |-> made, escaped |-> <<>>]
    ELSE [out |-> <<>>, calls |-> made, escaped |-> <<exc>>]

\* As OnError, had the handler swallowed the exception without printing.
OnErrorSilent(request_id, exc, made) ==
    [out |-> <<>>, calls |-> made, escaped |-> <<>>]

\* Leaving the try block with an exception raised while request_id has the
\* given value: the handler prints one error line, or the exception escapes.
OnError(request_id, exc, made) ==
    IF Catches(exc)
    THEN [out |-> <<ErrorResponse(request_id, exc)>>, calls |-> made, escaped |-> <<>>]
    ELSE [out |-> <<>>, calls |-> made, escaped |-> <<exc>>]

\* As IdAtImageCheck, had request_id been assigned only after the image check.
IdAtImageCheckUnassigned(request_id) == JNull

\* request_id as the except branch sees it when the image check raises.
IdAtImageCheck(request_id) == request_id

\* As RequestIdAtTry, had `request_id = None` been left out of the loop body.
RequestIdKept(previous) == previous

\* Line 96: request_id is reset on entry to the try block, whatever the
\* previous iteration left in it.
RequestIdAtTry(previous) == JNull

\* The outcome of the body together with the value it leaves in request_id.
Leaving(request_id_now, outcome) == outcome @@ [request_id |-> request_id_now]

\* One pass through the loop body for a non-blank line (lines 96-131), entered
\* with the given value of request_id: out is what it prints, calls the
\* predict calls it made, escaped the exception that leaves the body, if any,
\* request_id the value the local holds afterwards.
LoopBody(previous, m, lbls, raw) ==
    LET at_try == RequestIdAtTry(previous)
        loaded == json_loads(strip(raw))
    IN
    IF ~loaded.ok THEN Leaving(at_try, OnError(at_try, loaded.exc, <<>>))
    ELSE
      LET payload == loaded.val
          got_id == payload_get(payload, "id")
      IN
      IF ~got_id.ok THEN Leaving(at_try, OnError(at_try, got_id.exc, <<>>))
      ELSE
        LET request_id_now == got_id.val
            image_b64 == payload_get(payload, "image").val
        IN
        IF ~Truthy(image_b64)
        THEN Leaving(request_id_now,
                     OnError(IdAtImageCheck(request_id_now),
                             Raise("ValueError", "Missing image field").exc, <<>>))
        ELSE
          LET decoded == b64decode(image_b64) IN
          IF ~decoded.ok
          THEN Leaving(request_id_now, OnError(request_id_now, decoded.exc, <<>>))
          ELSE
            LET inferred == infer_scores(m, decoded.val) IN
            IF ~inferred.res.ok
            THEN Leaving(request_id_now,
                         OnError(request_id_now, inferred.res.exc, inferred.calls))
            ELSE [out |-> <<SuccessResponse(request_id_now, lbls, inferred.res.val)>>,
                  calls |-> inferred.calls,
                  escaped |-> <<>>,
                  request_id |-> request_id_now]

\* The loop body as the first iteration runs it: request_id is not yet bound.
HandleLine(m, lbls, raw) == LoopBody(JNull, m, lbls, raw)

----------------------------------------------------------------------------
(* The daemon process                                                      *)

\* split_stratified is not part of the run.
SplitNotCalled ==
    /\ image_paths = <<>>
    /\ split_labels = <<>>
    /\ val_split = 20
    /\ grouped = <<>>
    /\ train_paths = <<>>
    /\ train_labels = <<>>
    /\ val_paths = <<>>
    /\ val_labels = <<>>

NoFile == File(FALSE, FALSE, NoText)
NoImageFile == File(FALSE, FALSE, "")
NoArgs == [model |-> "", labels |-> "", image |-> "", help |-> FALSE]
NoEnv == [DISEASE_MODEL_PATH |-> "", DISEASE_LABELS_PATH |-> ""]
NoLine == Line("", EmptyText)

LabelsJson(names) == File(TRUE, TRUE, JList(names))

DaemonLabelFiles ==
    { LabelsJson(<<JStr("healthy"), JStr("blight"), JStr("rust")>>),
      LabelsJson(<<JStr("healthy")>>) }

DaemonInit ==
    /\ program = "daemon"
    /\ pc = "start"
    /\ environ \in
         { [DISEASE_MODEL_PATH |-> mp, DISEASE_LABELS_PATH |-> lp] :
             mp \in {""} \cup ModelPaths, lp \in {"", "labels.json"} }
    /\ legacy_keras \in BOOLEAN
    /\ labels_file \in DaemonLabelFiles
    /\ (environ.DISEASE_LABELS_PATH = "" => labels_file = LabelsJson(<<JStr("healthy")>>))
    /\ args = NoArgs
    /\ image_file = NoImageFile
    /\ stdin_bytes = ""
    /\ model = "none"
    /\ labels = <<>>
    /\ consumed = <<>>
    /\ raw_line = NoLine
    /\ SplitNotCalled
    /\ main_request_id = JNull
    /\ stdin_lines \in UNION { [1..n -> Lines] : n \in 0..MaxLines }
    /\ image_bytes = ""
    /\ stdout = <<>>
    /\ stderr = <<>>
    /\ exit_code = -1
    /\ calls = <<>>
    /\ loads = <<>>

\* __main__: an exception leaving main() is written to stderr, exit status 1.
Die(exc) ==
    /\ stderr' = Append(stderr, exc.msg)
    /\ exit_code' = 1
    /\ pc' = "exit"

\* As CheckModelPath, had the ready line been printed on entry to main().
CheckModelPathAnnouncing ==
    /\ pc = "start"
    /\ stdout' = Append(stdout, ReadyLine)
    /\ IF environ.DISEASE_MODEL_PATH = ""
       THEN Die(Raise("RuntimeError",
                      "DISEASE_MODEL_PATH environment variable is required").exc)
       ELSE pc' = "load_model" /\ UNCHANGED <<stderr, exit_code>>
    /\ UNCHANGED <<splitVars, program, main_request_id, stdin_lines, environ, args, legacy_keras, labels_file, image_file,
                   stdin_bytes, model, labels, consumed, raw_line, image_bytes,
                   calls, loads>>

\* Lines 80-84: read the configuration, require the model path.
CheckModelPath ==
    /\ pc = "start"
    /\ IF environ.DISEASE_MODEL_PATH = ""
       THEN Die(Raise("RuntimeError",
                      "DISEASE_MODEL_PATH environment variable is required").exc)
       ELSE pc' = "load_model" /\ UNCHANGED <<stderr, exit_code>>
    /\ UNCHANGED <<splitVars, program, main_request_id, stdin_lines, environ, args, legacy_keras, labels_file, image_file, stdin_bytes,
                   model, labels, consumed, raw_line, image_bytes, stdout, calls, loads>>

\* As LoadModel, had the load been wrapped in a handler that only logs.
LoadModelLogging ==
    /\ pc = "load_model"
    /\ LET r == load_disease_model(legacy_keras, environ.DISEASE_MODEL_PATH) IN
       /\ loads' = loads \o r.tried
       /\ IF r.res.ok
          THEN /\ model' = r.res.val
               /\ UNCHANGED stderr
          ELSE /\ stderr' = Append(stderr, r.res.exc.msg)
               /\ UNCHANGED model
    /\ pc' = "load_labels"
    /\ UNCHANGED <<splitVars, program, main_request_id, stdin_lines, environ, args, legacy_keras,
                   labels_file, image_file, stdin_bytes, labels, consumed, raw_line,
                   image_bytes, stdout, exit_code, calls>>

\* Line 86.
LoadModel ==
    /\ pc = "load_model"
    /\ LET r == load_disease_model(legacy_keras, environ.DISEASE_MODEL_PATH) IN
       /\ loads' = loads \o r.tried
       /\ IF r.res.ok
          THEN /\ model' = r.res.val
               /\ pc' = "load_labels"
               /\ UNCHANGED <<stderr, exit_code>>
          ELSE /\ Die(r.res.exc)
               /\ UNCHANGED model
    /\ UNCHANGED <<splitVars, program, main_request_id, stdin_lines, environ, args, legacy_keras, labels_file, image_file, stdin_bytes,
                   labels, consumed, raw_line, image_bytes, stdout, calls>>

\* Line 87.
LoadLabels ==
    /\ pc = "load_labels"
    /\ IF environ.DISEASE_LABELS_PATH # ""
       THEN /\ labels' = load_labels(labels_file)
            /\ loads' = Append(loads, "load_labels")
       ELSE /\ labels' = <<>>
            /\ UNCHANGED loads
    /\ pc' = "announce"
    /\ UNCHANGED <<splitVars, program, main_request_id, stdin_lines, environ, args, legacy_keras,
                   labels_file, image_file, stdin_bytes, model, consumed, raw_line,
                   image_bytes, stdout, stderr, exit_code, calls>>

\* Line 89.
Announce ==
    /\ pc = "announce"
    /\ stdout' = Append(stdout, ReadyLine)
    /\ pc' = "read"
    /\ UNCHANGED <<splitVars, program, main_request_id, stdin_lines, environ, args, legacy_keras, labels_file, image_file, stdin_bytes,
                   model, labels, consumed, raw_line, image_bytes, stderr,
                   exit_code, calls, loads>>

\* Line 91: the iteration delivers the next line of the input stream.
ReadLine ==
    /\ pc = "read"
    /\ stdin_lines # <<>>
    /\ raw_line' = Head(stdin_lines)
    /\ stdin_lines' = Tail(stdin_lines)
    /\ consumed' = Append(consumed, Head(stdin_lines))
    /\ pc' = "body"
    /\ UNCHANGED <<splitVars, program, main_request_id, environ, args, legacy_keras, labels_file, image_file, stdin_bytes,
                   model, labels, image_bytes, stdout, stderr, exit_code, calls, loads>>

\* Line 91: the input stream is at its end; main() returns, exit status 0.
EndOfInput ==
    /\ pc = "read"
    /\ stdin_lines = <<>>
    /\ pc' = "exit"
    /\ exit_code' = 0
    /\ UNCHANGED <<splitVars, program, main_request_id, stdin_lines, environ, args, legacy_keras, labels_file, image_file, stdin_bytes,
                   model, labels, consumed, raw_line, image_bytes, stdout, stderr,
                   calls, loads>>

\* As SkipBlank, had line 94 been `break`: the loop ends at a blank line.
SkipBlankBreaking ==
    /\ pc = "body"
    /\ IsBlank(raw_line)
    /\ pc' = "exit"
    /\ exit_code' = 0
    /\ UNCHANGED <<splitVars, program, main_request_id, stdin_lines, environ, args, legacy_keras,
                   labels_file, image_file, stdin_bytes, model, labels, consumed,
                   raw_line, image_bytes, stdout, stderr, calls, loads>>

\* As SkipBlank, had the `continue` of line 94 been left out: the empty
\* text goes to json.loads and the failure is answered.
SkipBlankAnswering ==
    /\ pc = "body"
    /\ IsBlank(raw_line)
    /\ stdout' = Append(stdout, ErrorResponse(JNull,
                     Raise("JSONDecodeError", "Expecting value: line 1 column 1 (char 0)").exc))
    /\ main_request_id' = JNull
    /\ calls' = <<>>
    /\ pc' = "read"
    /\ UNCHANGED <<splitVars, program, stdin_lines, environ, args, legacy_keras, labels_file,
                   image_file, stdin_bytes, model, labels, consumed, raw_line,
                   image_bytes, stderr, exit_code, loads>>

\* Lines 92-94: a blank line is skipped.
SkipBlank ==
    /\ pc = "body"
    /\ IsBlank(raw_line)
    /\ pc' = "read"
    /\ UNCHANGED <<splitVars, program, main_request_id, stdin_lines, environ, args, legacy_keras, labels_file, image_file, stdin_bytes,
                   model, labels, consumed, raw_line, image_bytes, stdout, stderr,
                   exit_code, calls, loads>>

\* As HandleRequest, had the model and the labels been loaded inside the loop.
HandleRequestReloading ==
    /\ pc = "body"
    /\ ~IsBlank(raw_line)
    /\ LET r == load_disease_model(legacy_keras, environ.DISEASE_MODEL_PATH)
           h == LoopBody(main_request_id, r.res.val, labels, raw_line)
       IN
       /\ model' = r.res.val
       /\ loads' = loads \o r.tried
       /\ stdout' = stdout \o h.out
       /\ calls' = h.calls
       /\ main_request_id' = h.request_id
       /\ pc' = "read"
       /\ UNCHANGED <<stderr, exit_code>>
    /\ UNCHANGED <<splitVars, program, stdin_lines, environ, args, legacy_keras, labels_file,
                   image_file, stdin_bytes, labels, consumed, raw_line, image_bytes>>

\* Lines 96-131: the try/except around one request.
HandleRequest ==
    /\ pc = "body"
    /\ ~IsBlank(raw_line)
    /\ LET h == LoopBody(main_request_id, model, labels, raw_line) IN
       /\ stdout' = stdout \o h.out
       /\ calls' = h.calls
       /\ main_request_id' = h.request_id
       /\ IF h.escaped = <<>>
          THEN pc' = "read" /\ UNCHANGED <<stderr, exit_code>>
          ELSE Die(h.escaped[1])
    /\ UNCHANGED <<splitVars, program, stdin_lines, environ, args, legacy_keras, labels_file, image_file, stdin_bytes,
                   model, labels, consumed, raw_line, image_bytes, loads>>

----------------------------------------------------------------------------
(* The one-shot CLI (predict_crop_disease.py)                              *)

\* preprocess_image: decode, convert to RGB, resize.
preprocess_image(bytes) ==
    IF bytes \notin Images
    THEN Raise("UnidentifiedImageError", "cannot identify image file")
    ELSE Ok(View(bytes, "identity"))

\* mobilenet_v2.preprocess_input of a float array: the array scaled to
\* [-1, 1].  The scaling is done in place (x /= 127.5; x -= 1.0), so the
\* argument itself holds the result afterwards.
preprocess_input(array) == [array EXCEPT !.transform = @ \o "|mobilenet_v2"]

\* Lines 74-91 of the CLI: res is mean_scores or the exception raised, calls
\* the batches handed to model.predict, in order.
cli_scores(m, bytes) ==
    LET decoded == preprocess_image(bytes) IN
    IF ~decoded.ok THEN [res |-> decoded, calls |-> <<>>]
    ELSE
      LET single_input == <<preprocess_input(decoded.val)>>
          \* line 75 passes image_array itself: it is written over
          image_array == single_input[1]
          first == predict(m, single_input)
      IN
      IF ~first.ok THEN [res |-> first, calls |-> <<single_input>>]
      ELSE IF SeqMax(first.val[1]) >= Threshold
      THEN [res |-> Ok(first.val[1]), calls |-> <<single_input>>]
      ELSE
        LET views == << image_array,
                        [image_array EXCEPT !.transform = @ \o "|fliplr"],
                        [image_array EXCEPT !.transform = @ \o "|clip*1.08"] >>
            \* line 85: view.astype(np.float32) is a copy, scaled again
            batch == [k \in 1..3 |-> preprocess_input(views[k])]
            second == predict(m, batch)
        IN
        IF ~second.ok THEN [res |-> second, calls |-> <<single_input, batch>>]
        ELSE [res |-> Ok(MeanRows(second.val)), calls |-> <<single_input, batch>>]

\* Lines 93-103 of the CLI: the output object.
CliOutput(lbls, mean_scores) ==
    LET best_index == ArgMax(mean_scores) IN
    [label |-> PickLabel(lbls, best_index),
     confidence |-> mean_scores[best_index + 1],
     scores |-> mean_scores]

ImageFiles ==
    { File(FALSE, FALSE, ""), File(TRUE, FALSE, ""), File(TRUE, TRUE, ""),
      File(TRUE, TRUE, "junk") } \cup { File(TRUE, TRUE, i) : i \in Images }

CliInit ==
    /\ program = "cli"
    /\ pc = "cli_start"
    /\ environ = NoEnv
    /\ legacy_keras \in BOOLEAN
    /\ labels_file \in DaemonLabelFiles
    /\ args \in [model : {"None"} \cup ModelPaths,
                 labels : {"None", "labels.json"},
                 image : {"None", "leaf.jpg"},
                 help : BOOLEAN]
    /\ (args.labels = "None" => labels_file = LabelsJson(<<JStr("healthy")>>))
    /\ image_file \in ImageFiles
    /\ stdin_bytes \in {"", "junk"} \cup Images
    /\ (args.image = "None" => image_file = NoImageFile)
    /\ (args.image # "None" => stdin_bytes = "")
    /\ (args.help => /\ args.labels = "None" /\ args.image = "None"
                     /\ stdin_bytes = "" /\ legacy_keras)
    /\ model = "none"
    /\ labels = <<>>
    /\ consumed = <<>>
    /\ raw_line = NoLine
    /\ SplitNotCalled
    /\ main_request_id = JNull
    /\ stdin_lines = <<>>
    /\ image_bytes = ""
    /\ stdout = <<>>
    /\ stderr = <<>>
    /\ exit_code = -1
    /\ calls = <<>>
    /\ loads = <<>>

\* What argparse prints for -h (plain text, not a JSON object).
HelpText == [text |-> "usage: predict_crop_disease.py [-h] --model MODEL"]

\* As CliDie, had the handler not called sys.exit(1).
CliDieExitZero(exc) ==
    /\ stderr' = Append(stderr, exc.msg)
    /\ exit_code' = 0
    /\ pc' = "exit"

\* __main__ of the CLI: an Exception leaving main() goes to stderr, exit 1.
CliDie(exc) ==
    /\ stderr' = Append(stderr, exc.msg)
    /\ exit_code' = 1
    /\ pc' = "exit"

\* Lines 56-60: argparse. -h prints the help and exits 0, a missing --model
\* prints the usage error and exits 2; both raise SystemExit, which the
\* `except Exception` of __main__ does not catch.
CliParseArgs ==
    /\ pc = "cli_start"
    /\ IF args.help
       THEN /\ stdout' = Append(stdout, HelpText)
            /\ exit_code' = 0
            /\ pc' = "exit"
            /\ UNCHANGED stderr
       ELSE IF args.model = "None"
       THEN /\ stderr' = Append(stderr, "error: the following arguments are required: --model")
            /\ exit_code' = 2
            /\ pc' = "exit"
            /\ UNCHANGED stdout
       ELSE /\ pc' = "cli_read"
            /\ UNCHANGED <<stdout, stderr, exit_code>>
    /\ UNCHANGED <<splitVars, program, main_request_id, stdin_lines, environ, args, legacy_keras, labels_file, image_file,
                   stdin_bytes, model, labels, consumed, raw_line, image_bytes,
                   calls, loads>>

\* As CliReadImage, had the `if not image_bytes` check of lines 68-69 been
\* left out.
CliReadImageUnchecked ==
    /\ pc = "cli_read"
    /\ LET read == IF args.image # "None"
                   THEN IF ~image_file.exists
                        THEN Raise("FileNotFoundError", "No such file or directory: leaf.jpg")
                        ELSE IF ~image_file.readable
                        THEN Raise("OSError", "Permission denied: leaf.jpg")
                        ELSE Ok(image_file.text)
                   ELSE Ok(stdin_bytes)
       IN
       IF ~read.ok
       THEN CliDie(read.exc) /\ UNCHANGED image_bytes
       ELSE /\ image_bytes' = read.val
            /\ pc' = "cli_load"
            /\ UNCHANGED <<stderr, exit_code>>
    /\ UNCHANGED <<splitVars, program, main_request_id, stdin_lines, environ, args, legacy_keras,
                   labels_file, image_file, stdin_bytes, model, labels, consumed,
                   raw_line, stdout, calls, loads>>

\* Lines 62-69: the image bytes, from the file or from the input stream.
CliReadImage ==
    /\ pc = "cli_read"
    /\ LET read == IF args.image # "None"
                   THEN IF ~image_file.exists
                        THEN Raise("FileNotFoundError", "No such file or directory: leaf.jpg")
                        ELSE IF ~image_file.readable
                        THEN Raise("OSError", "Permission denied: leaf.jpg")
                        ELSE Ok(image_file.text)
                   ELSE Ok(stdin_bytes)
       IN
       IF ~read.ok
       THEN CliDie(read.exc) /\ UNCHANGED image_bytes
       ELSE IF read.val = ""
       THEN /\ CliDie(Raise("ValueError", "No image bytes received on stdin").exc)
            /\ image_bytes' = read.val
       ELSE /\ image_bytes' = read.val
            /\ pc' = "cli_load"
            /\ UNCHANGED <<stderr, exit_code>>
    /\ UNCHANGED <<splitVars, program, main_request_id, stdin_lines, environ, args, legacy_keras, labels_file, image_file,
                   stdin_bytes, model, labels, consumed, raw_line, stdout, calls, loads>>

\* Lines 71-72: the model, then the labels.
CliLoad ==
    /\ pc = "cli_load"
    /\ LET r == load_disease_model(legacy_keras, args.model) IN
       /\ IF r.res.ok
          THEN /\ model' = r.res.val
               /\ IF args.labels # "None"
                  THEN /\ labels' = load_labels(labels_file)
                       /\ loads' = loads \o r.tried \o <<"load_labels">>
                  ELSE /\ labels' = <<>>
                       /\ loads' = loads \o r.tried
               /\ pc' = "cli_classify"
               /\ UNCHANGED <<stderr, exit_code>>
          ELSE /\ CliDie(r.res.exc)
               /\ loads' = loads \o r.tried
               /\ UNCHANGED <<model, labels>>
    /\ UNCHANGED <<splitVars, program, main_request_id, stdin_lines, environ, args, legacy_keras, labels_file, image_file,
                   stdin_bytes, consumed, raw_line, image_bytes, stdout, calls>>

\* Lines 74-104: classify and write the result.
CliClassify ==
    /\ pc = "cli_classify"
    /\ LET c == cli_scores(model, image_bytes) IN
       /\ calls' = c.calls
       /\ IF c.res.ok
          THEN /\ stdout' = Append(stdout, CliOutput(labels, c.res.val))
               /\ exit_code' = 0
               /\ pc' = "exit"
               /\ UNCHANGED stderr
          ELSE /\ CliDie(c.res.exc)
               /\ UNCHANGED stdout
    /\ UNCHANGED <<splitVars, program, main_request_id, stdin_lines, environ, args, legacy_keras, labels_file, image_file,
                   stdin_bytes, model, labels, consumed, raw_line, image_bytes, loads>>

Next ==
    \/ CheckModelPath
    \/ LoadModel
    \/ LoadLabels
    \/ Announce
    \/ ReadLine
    \/ EndOfInput
    \/ SkipBlank
    \/ HandleRequest
    \/ CliParseArgs
    \/ CliReadImage
    \/ CliLoad
    \/ CliClassify

Init == DaemonInit \/ CliInit

Spec == Init /\ [][Next]_vars

\* The daemon alone.
DaemonNext ==
    \/ CheckModelPath
    \/ LoadModel
    \/ LoadLabels
    \/ Announce
    \/ ReadLine
    \/ EndOfInput
    \/ SkipBlank
    \/ HandleRequest

Positions == {"start", "load_model", "load_labels", "announce", "read", "body", "exit"}

\* A step of the running process: its position in main() moves on.  Every
\* step of DaemonNext is such a step, and a daemon that has not exited
\* always has one.
ProcessStep == pc # "exit" /\ pc' \in Positions \ {pc}

\* The daemon is one sequential process that is never suspended: whenever it
\* has not exited, it takes its next step.  Its input stream is finite and
\* closed (stdin_lines), so reading never blocks.
FairSpec == DaemonInit /\ [][DaemonNext]_vars /\ WF_pc(ProcessStep)

----------------------------------------------------------------------------
(* load_labels on its own                                                  *)

LabelItems == {JStr("healthy"), JStr("blight"), JNum("1"), JNull}

AllLabelFiles ==
    { File(FALSE, FALSE, NoText), File(TRUE, FALSE, NoText), File(TRUE, TRUE, NoText),
      File(TRUE, TRUE, JNull), File(TRUE, TRUE, JStr("healthy")),
      File(TRUE, TRUE, JNum("3")), File(TRUE, TRUE, JDict(NoMembers)),
      File(TRUE, TRUE, JDict([healthy |-> JNum("0")])) }
    \cup { LabelsJson(xs) : xs \in UNION { [1..n -> LabelItems] : n \in 0..MaxLabels } }

LabelsInit ==
    /\ program = "load_labels"
    /\ pc = "call"
    /\ labels_file \in AllLabelFiles
    /\ environ = NoEnv
    /\ args = NoArgs
    /\ legacy_keras = FALSE
    /\ image_file = NoImageFile
    /\ stdin_bytes = ""
    /\ model = "none"
    /\ labels = <<>>
    /\ consumed = <<>>
    /\ raw_line = NoLine
    /\ SplitNotCalled
    /\ main_request_id = JNull
    /\ stdin_lines = <<>>
    /\ image_bytes = ""
    /\ stdout = <<>>
    /\ stderr = <<>>
    /\ exit_code = -1
    /\ calls = <<>>
    /\ loads = <<>>

\* labels = load_labels(labels_path)
CallLoadLabels ==
    /\ pc = "call"
    /\ labels' = load_labels(labels_file)
    /\ pc' = "returned"
    /\ UNCHANGED <<splitVars, program, main_request_id, stdin_lines, environ, args, legacy_keras, labels_file, image_file,
                   stdin_bytes, model, consumed, raw_line, image_bytes, stdout,
                   stderr, exit_code, calls, loads>>

LabelsNext == CallLoadLabels

SpecLabels == LabelsInit /\ [][LabelsNext]_vars

----------------------------------------------------------------------------
(* split_stratified (train_crop_disease.py), called on its own             *)

MaxImages == 4    \* images handed to one call of split_stratified

\* Labels as collect_image_paths builds them: "<crop>_<disease>".
ClassLabels == {"Rice_Blast", "Wheat_Rust"}

\* The path of the k-th image found; rglob never yields a path twice.
ImagePath(k) == "img" \o ToString(k) \o ".jpg"

\* val_split in percent: the 0.2 of VAL_SPLIT and of the default, a half,
\* and everything.
ValSplits == {20, 50, 100}

Min(a, b) == IF a <= b THEN a ELSE b
Max(a, b) == IF a >= b THEN a ELSE b

RECURSIVE Grouped(_, _)
\* Lines 42-44: grouped.setdefault(label, []).append(path) over the zipped
\* arguments; a dict keeps its keys in insertion order.
Grouped(paths, lbls) ==
    IF paths = <<>> \/ lbls = <<>> THEN <<>>
    ELSE LET n == Min(Len(paths), Len(lbls))
             before == Grouped(SubSeq(paths, 1, n - 1), SubSeq(lbls, 1, n - 1))
             at == {k \in 1..Len(before) : before[k].label = lbls[n]}
         IN IF at = {}
            THEN Append(before, [label |-> lbls[n], paths |-> <<paths[n]>>])
            ELSE LET k == CHOOSE k \in at : TRUE IN
                 [before EXCEPT ![k].paths = Append(@, paths[n])]

\* As SplitClass, had lines 57-59 (the rescue of an empty training subset)
\* been left out.
SplitClassNoRescue(paths_copy, split) ==
    LET val_count == Max(1, (Len(paths_copy) * split) \div 100) IN
    [train |-> SubSeq(paths_copy, val_count + 1, Len(paths_copy)),
     val |-> SubSeq(paths_copy, 1, Min(val_count, Len(paths_copy)))]

\* Lines 53-59: the shuffled paths of one class cut into its validation
\* subset (the first val_count) and its training subset (the rest).
SplitClass(paths_copy, split) ==
    LET val_count == Max(1, (Len(paths_copy) * split) \div 100)
        val_subset == SubSeq(paths_copy, 1, Min(val_count, Len(paths_copy)))
        train_subset == SubSeq(paths_copy, val_count + 1, Len(paths_copy))
    IN IF train_subset = <<>>
       THEN [train |-> SubSeq(val_subset, 1, 1), val |-> Tail(val_subset)]
       ELSE [train |-> train_subset, val |-> val_subset]

\* n copies of a label: [label] * n.
Repeat(label, n) == [k \in 1..n |-> label]

SplitInit ==
    /\ program = "split_stratified"
    /\ pc = "entry"
    /\ \E n \in 0..MaxImages :
         /\ image_paths = [k \in 1..n |-> ImagePath(k)]
         /\ split_labels \in [1..n -> ClassLabels]
    /\ val_split \in ValSplits
    /\ grouped = <<>>
    /\ train_paths = <<>>
    /\ train_labels = <<>>
    /\ val_paths = <<>>
    /\ val_labels = <<>>
    /\ labels_file = NoFile
    /\ environ = NoEnv
    /\ args = NoArgs
    /\ legacy_keras = FALSE
    /\ image_file = NoImageFile
    /\ stdin_bytes = ""
    /\ model = "none"
    /\ labels = <<>>
    /\ consumed = <<>>
    /\ raw_line = NoLine
    /\ main_request_id = JNull
    /\ stdin_lines = <<>>
    /\ image_bytes = ""
    /\ stdout = <<>>
    /\ stderr = <<>>
    /\ exit_code = -1
    /\ calls = <<>>
    /\ loads = <<>>

mainVars == <<program, environ, args, legacy_keras, labels_file, image_file, stdin_bytes,
              model, labels, consumed, raw_line, main_request_id, stdin_lines,
              image_bytes, stdout, stderr, exit_code, calls, loads>>

\* Lines 42-50: group the paths by label, start with empty result lists.
GroupPaths ==
    /\ program = "split_stratified"
    /\ pc = "entry"
    /\ grouped' = Grouped(image_paths, split_labels)
    /\ pc' = "loop"
    /\ UNCHANGED <<image_paths, split_labels, val_split,
                   train_paths, train_labels, val_paths, val_labels, mainVars>>

\* Lines 51-64: one pass of the loop over grouped.items().  rng.shuffle
\* leaves the paths of the class in some order fixed by the seed; which one
\* is not modelled, any order may come out.
SplitNextClass ==
    /\ program = "split_stratified"
    /\ pc = "loop"
    /\ grouped # <<>>
    /\ LET label == grouped[1].label
           paths == grouped[1].paths
       IN \E order \in Permutations(1..Len(paths)) :
            LET paths_copy == [k \in 1..Len(paths) |-> paths[order[k]]]
                cut == SplitClass(paths_copy, val_split)
            IN /\ train_paths' = train_paths \o cut.train
               /\ train_labels' = train_labels \o Repeat(label, Len(cut.train))
               /\ val_paths' = val_paths \o cut.val
               /\ val_labels' = val_labels \o Repeat(label, Len(cut.val))
    /\ grouped' = Tail(grouped)
    /\ UNCHANGED <<pc, image_paths, split_labels, val_split, mainVars>>

\* Line 66: every class is split; return the four lists.
ReturnSplit ==
    /\ program = "split_stratified"
    /\ pc = "loop"
    /\ grouped = <<>>
    /\ pc' = "returned"
    /\ UNCHANGED <<image_paths, split_labels, val_split, grouped,
                   train_paths, train_labels, val_paths, val_labels, mainVars>>

SplitNext == GroupPaths \/ SplitNextClass \/ ReturnSplit

SpecSplit == SplitInit /\ [][SplitNext]_vars

----------------------------------------------------------------------------
(* Properties                                                              *)

IsRequestLine(l) == ~IsBlank(l)

\* The non-blank lines read so far, in order.
NonBlank == SelectSeq(consumed, IsRequestLine)

\* The non-blank lines whose loop body has finished.
Handled ==
    IF pc = "body" /\ ~IsBlank(raw_line)
    THEN SubSeq(NonBlank, 1, Len(NonBlank) - 1)
    ELSE NonBlank

Serving == program = "daemon" /\ stdout # <<>>

IsError(resp) == "error" \in DOMAIN resp
IsSuccess(resp) == "label" \in DOMAIN resp

\* C1: once the ready line is out, handling a request line never ends the
\* loop or the process: every pass through the loop body of the daemon goes
\* back to reading with nothing on stderr and no exit status, and the loop
\* is left only from the read position, at end of input, with status 0.
C1_RequestNeverAbortsLoop ==
    [][ /\ (program = "daemon" /\ pc = "body") =>
             (pc' = "read" /\ exit_code' = -1 /\ stderr' = <<>>)
        /\ (Serving /\ pc' = "exit") =>
             (pc = "read" /\ exit_code' = 0 /\ stderr' = <<>>) ]_vars

\* A request failed (scoring raised), and the daemon has read the next line.
C1_Witness ==
    /\ Serving
    /\ pc = "body"
    /\ Len(consumed) = 2
    /\ consumed[1] = Request([id |-> JNum("42"), image |-> JStr("b64:leafF")])
    /\ Len(stdout) = 2
    /\ IsError(stdout[2])
    /\ exit_code = -1

\* C2: the output of a serving daemon is the ready line followed by exactly
\* one response per non-blank line whose handling has finished, the k-th
\* response being the response to the k-th non-blank line; a line is read
\* only when every earlier non-blank line has its response.
C2_OneResponsePerLineInOrder ==
    Serving =>
      /\ Len(stdout) = 1 + Len(Handled)
      /\ \A k \in 1..Len(Handled) :
           /\ IsError(stdout[k + 1]) \/ IsSuccess(stdout[k + 1])
           /\ <<stdout[k + 1]>> = HandleLine(model, labels, Handled[k]).out

\* Two non-blank lines, the first failing and the second succeeding, with a
\* blank line skipped: three lines out, in request order.
C2_Witness ==
    /\ Serving
    /\ pc = "exit"
    /\ Len(consumed) = 2
    /\ Len(NonBlank) = 2
    /\ Len(stdout) = 3
    /\ IsError(stdout[2]) /\ stdout[2].id = JStr("a")
    /\ IsSuccess(stdout[3]) /\ stdout[3].id = JNum("42")

\* What a request line holds, read off the line itself.
ParsesAsJson(l) == l.text.t \notin {"garbage", "empty"}
IsObject(l) == l.text.t = "dict"
HasImage(l) ==
    /\ IsObject(l)
    /\ "image" \in DOMAIN l.text.members
    /\ l.text.members.image \notin {JNull, JStr("")}
IdField(l) ==
    IF IsObject(l) /\ "id" \in DOMAIN l.text.members THEN l.text.members.id ELSE JNull

\* C3 as stated: a non-blank line that fails to parse as JSON, or parses but
\* has no (or an empty) image field, is answered by an error with id null.
C3_NullIdWhenUnparsedOrNoImage ==
    Serving =>
      \A k \in 1..Len(Handled) :
        (~ParsesAsJson(Handled[k]) \/ ~HasImage(Handled[k])) =>
          (IsError(stdout[k + 1]) /\ stdout[k + 1].id = JNull)

\* C3 amended: a non-blank line that fails to parse as JSON, or parses to
\* something that is not an object, is answered by an error with id null; an
\* object whose image field is absent or empty is answered by an error that
\* carries the id of the line (null when the line has no id).
C3_IdOfErrorBeforeDecoding ==
    Serving =>
      \A k \in 1..Len(Handled) :
        /\ (~ParsesAsJson(Handled[k]) \/ ~IsObject(Handled[k])) =>
             (IsError(stdout[k + 1]) /\ stdout[k + 1].id = JNull)
        /\ (IsObject(Handled[k]) /\ ~HasImage(Handled[k])) =>
             (IsError(stdout[k + 1]) /\ stdout[k + 1].id = IdField(Handled[k]))

\* {"id": 42} was answered by {"id": 42, "error": "Missing image field"}, and
\* a line that is not JSON by an error with id null.
C3_Witness ==
    /\ Serving
    /\ Len(Handled) = 2
    /\ Handled[1] = Request([id |-> JNum("42")])
    /\ stdout[2] = [id |-> JNum("42"), error |-> "Missing image field"]
    /\ ~ParsesAsJson(Handled[2])
    /\ IsError(stdout[3]) /\ stdout[3].id = JNull

\* C4: the response to a line that parses as an object with a non-empty
\* image field carries the id of that line (null when it has none), on
\* success and on every later failure.
C4_IdEchoedAfterExtraction ==
    Serving =>
      \A k \in 1..Len(Handled) :
        HasImage(Handled[k]) => stdout[k + 1].id = IdField(Handled[k])

\* An undecodable base64 payload answered by an error with its id 42, then a
\* classified image answered by a success with its id "a".
C4_Witness ==
    /\ Serving
    /\ Len(Handled) = 2
    /\ Handled[1] = Request([id |-> JNum("42"), image |-> JStr("@@@")])
    /\ IsError(stdout[2]) /\ stdout[2].id = JNum("42")
    /\ HasImage(Handled[2])
    /\ IsSuccess(stdout[3]) /\ stdout[3].id = JStr("a")

\* The last classification that ran to its end was of image img: the last
\* request line of a daemon carried it, or the CLI read it and loaded a model.
Classified(img) ==
    \/ /\ Serving
       /\ pc \in {"read", "exit"}
       /\ consumed # <<>>
       /\ HasImage(raw_line)
       /\ raw_line.text.members.image = JStr("b64:" \o img)
    \/ /\ program = "cli"
       /\ pc = "exit"
       /\ model # "none"
       /\ image_bytes = img

LastOutput == stdout[Len(stdout)]

\* The three inputs of the scoring function for an image.
IdentityView(img) == [img |-> img, transform |-> "identity|mobilenet_v2"]
MirrorView(img) == [img |-> img, transform |-> "fliplr|mobilenet_v2"]
BrightView(img) == [img |-> img, transform |-> "clip*1.08|mobilenet_v2"]

\* The arrays the running program stacks for its second call: the daemon
\* scales copies of the three views, the one-shot CLI builds its views from
\* the array its first call already scaled and scales them again.
SecondBatch(img) ==
    IF program = "cli"
    THEN << [img |-> img, transform |-> "identity|mobilenet_v2|mobilenet_v2"],
            [img |-> img, transform |-> "identity|mobilenet_v2|fliplr|mobilenet_v2"],
            [img |-> img, transform |-> "identity|mobilenet_v2|clip*1.08|mobilenet_v2"] >>
    ELSE <<IdentityView(img), MirrorView(img), BrightView(img)>>

\* What the loaded scoring function answers for the single view of img.
SingleScores(img) == ScoreRow(model, IdentityView(img))

\* C5: when the largest single-view score is at least 0.72 (720), the
\* scoring function was called once, on the batch of the one identity view,
\* and the reported scores are the single-view scores.
C5_GateKeepsSingleView ==
    \A img \in Images :
      ( /\ Classified(img)
        /\ SingleScores(img) # <<>>
        /\ \E j \in 1..Len(SingleScores(img)) : SingleScores(img)[j] >= 720 ) =>
      ( /\ calls = << <<IdentityView(img)>> >>
        /\ stdout # <<>>
        /\ IsSuccess(LastOutput)
        /\ LastOutput.scores = SingleScores(img) )

\* An image whose best single-view score is exactly 0.72 was answered with
\* one call.
C5_Witness ==
    /\ Classified("leafB")
    /\ model = "m3"
    /\ Len(calls) = 1
    /\ LastOutput.scores = <<720, 180, 100>>
    /\ LastOutput.confidence = 720

\* C6: when every single-view score is below 0.72 (720), the scoring
\* function was called twice, on the identity view and then on the batch
\* identity, mirror, brightened; the reported scores are the mean of the
\* three rows of the second call; there is never a third call.
C6_EnsembleBelowGate ==
    /\ Len(calls) <= 2
    /\ \A img \in Images :
         ( /\ Classified(img)
           /\ SingleScores(img) # <<>>
           /\ \A j \in 1..Len(SingleScores(img)) : SingleScores(img)[j] < 720 ) =>
         ( /\ calls = << <<IdentityView(img)>>,
                         <<IdentityView(img), MirrorView(img), BrightView(img)>> >>
           /\ LET r1 == ScoreRow(model, IdentityView(img))
                  r2 == ScoreRow(model, MirrorView(img))
                  r3 == ScoreRow(model, BrightView(img))
              IN IF r2 = <<>> \/ r3 = <<>>
                 THEN IF program = "daemon" THEN IsError(LastOutput) ELSE exit_code = 1
                 ELSE /\ stdout # <<>>
                      /\ IsSuccess(LastOutput)
                      /\ Len(LastOutput.scores) = Len(r1)
                      /\ \A j \in 1..Len(r1) :
                           3 * LastOutput.scores[j] = r1[j] + r2[j] + r3[j] )

\* How many ready lines the daemon has written.
ReadyCount == Cardinality({k \in 1..Len(stdout) : stdout[k] = ReadyLine})

\* C7: the daemon writes the ready line at most once; when it is written it
\* is the first line out, the model and the labels are loaded, and no line
\* has been read; a daemon that reads, handles or has finished its input
\* has written it exactly once.
C7_ReadyOnceAfterLoadBeforeRead ==
    program = "daemon" =>
      /\ ReadyCount <= 1
      /\ stdout # <<>> =>
           /\ stdout[1] = ReadyLine
           /\ model \in Models
           /\ loads # <<>>
           /\ labels = IF environ.DISEASE_LABELS_PATH # ""
                       THEN labels_file.text.items ELSE <<>>
           /\ pc \in {"read", "body", "exit"}
      /\ consumed # <<>> => ReadyCount = 1
      /\ (pc \in {"read", "body"} \/ (pc = "exit" /\ exit_code = 0)) => ReadyCount = 1
      /\ pc \in {"start", "load_model", "load_labels", "announce"} =>
           (stdout = <<>> /\ consumed = <<>>)

\* The ready line is out, the model and three labels are loaded, and no
\* line has been read yet.
C7_Witness ==
    /\ program = "daemon"
    /\ pc = "read"
    /\ stdout = <<ReadyLine>>
    /\ consumed = <<>>
    /\ model = "m3"
    /\ Len(labels) = 3

\* The labels file holds a non-empty JSON list whose elements are all strings.
IsNonEmptyStringList(f) ==
    /\ f.exists /\ f.readable
    /\ f.text.t = "list"
    /\ Len(f.text.items) > 0
    /\ \A k \in 1..Len(f.text.items) : f.text.items[k].t = "str"

\* C8: load_labels returns the parsed list when the file holds a non-empty
\* list of strings, and the empty list in every other case.
C8_LabelsOnlyNonEmptyStringList ==
    (program = "load_labels" /\ pc = "returned") =>
      labels = IF IsNonEmptyStringList(labels_file) THEN labels_file.text.items ELSE <<>>

\* What the CLI gets as image bytes, "" when the file cannot be read.
CliInputBytes ==
    IF args.image # "None"
    THEN IF image_file.exists /\ image_file.readable THEN image_file.text ELSE ""
    ELSE stdin_bytes

\* The scoring function raises somewhere on the way of classifying img.
ScoringRaises(m, img) ==
    \/ ScoreRow(m, IdentityView(img)) = <<>>
    \/ /\ \A j \in 1..Len(ScoreRow(m, IdentityView(img))) :
            ScoreRow(m, IdentityView(img))[j] < 720
       /\ \E k \in 1..3 : ScoreRow(m, SecondBatch(img)[k]) = <<>>

\* The model path of the CLI has an artifact one of the tried loaders loads.
CliModelLoads ==
    \/ legacy_keras /\ ModelArtifact(args.model).legacy
    \/ ModelArtifact(args.model).tf

\* Some step of the CLI after argument parsing fails.
CliFails ==
    \/ CliInputBytes \notin Images
    \/ ~CliModelLoads
    \/ ScoringRaises(ModelArtifact(args.model).model, CliInputBytes)

IsResult(x) == DOMAIN x = {"label", "confidence", "scores"}

\* C9 as stated: every run of the CLI ends with status 0 and exactly one
\* result object on stdout, or with status 1, a message on stderr and
\* nothing on stdout; a missing model path and every other failure end the
\* second way.
C9_ExitZeroResultOrExitOne ==
    (program = "cli" /\ pc = "exit") =>
      /\ \/ exit_code = 0 /\ Len(stdout) = 1 /\ IsResult(stdout[1])
         \/ exit_code = 1 /\ stderr # <<>> /\ stdout = <<>>
      /\ (args.model = "None" \/ CliFails) => exit_code = 1

\* C9 amended: a run whose arguments parse ends with status 0 and exactly
\* one result object on stdout (nothing on stderr), or with status 1, one
\* message on stderr and nothing on stdout, the second exactly when a step
\* after parsing fails; a run without --model ends with status 2, the usage
\* error on stderr and nothing on stdout; -h ends with status 0 and the
\* help text on stdout.
C9_CliOutcomes ==
    (program = "cli" /\ pc = "exit") =>
      IF args.help
      THEN exit_code = 0 /\ stdout = <<HelpText>> /\ stderr = <<>>
      ELSE IF args.model = "None"
      THEN exit_code = 2 /\ Len(stderr) = 1 /\ stdout = <<>>
      ELSE IF CliFails
      THEN exit_code = 1 /\ Len(stderr) = 1 /\ stdout = <<>>
      ELSE exit_code = 0 /\ Len(stdout) = 1 /\ IsResult(stdout[1]) /\ stderr = <<>>

\* A CLI run whose second scoring call raised: status 1, the message on
\* stderr, nothing on stdout.
C9_Witness ==
    /\ program = "cli"
    /\ pc = "exit"
    /\ image_bytes = "leafG"
    /\ model = "m3"
    /\ Len(calls) = 2
    /\ exit_code = 1
    /\ stderr = <<"Graph execution error">>
    /\ stdout = <<>>

\* The success results written so far.
SuccessResults ==
    IF program \in {"daemon", "cli"}
    THEN {stdout[k] : k \in {j \in 1..Len(stdout) : IsSuccess(stdout[j])}}
    ELSE {}

\* The lowest 0-based index that holds the largest score.
BestIndex(scores) ==
    CHOOSE i \in 0..(Len(scores) - 1) :
      /\ \A j \in 1..Len(scores) : scores[j] <= scores[i + 1]
      /\ \A j \in 1..i : scores[j] < scores[i + 1]

ClassName(i) ==
    CASE i = 0 -> JStr("class_0")
      [] i = 1 -> JStr("class_1")
      [] i = 2 -> JStr("class_2")
      [] i = 3 -> JStr("class_3")

\* Every view the classification of img may score has a score row.
ScoresDefined(img) ==
    /\ model \in Models
    /\ ~ScoringRaises(model, img)

\* C10: the label of every success result is labels[best_index] when the
\* label list is non-empty and longer than best_index, and "class_" followed
\* by best_index otherwise; an image the model scores is answered by a
\* success whatever the length of the label list.
C10_LabelOrSynthesizedName ==
    /\ \A r \in SuccessResults :
         r.label = IF labels # <<>> /\ BestIndex(r.scores) < Len(labels)
                   THEN labels[BestIndex(r.scores) + 1]
                   ELSE ClassName(BestIndex(r.scores))
    /\ \A img \in Images :
         (Classified(img) /\ ScoresDefined(img)) =>
           (stdout # <<>> /\ IsSuccess(LastOutput))

\* A daemon with the one label "healthy": best index 1 is named "class_1",
\* best index 0 is named "healthy".
C10_Witness ==
    /\ Serving
    /\ labels = <<JStr("healthy")>>
    /\ Len(stdout) = 3
    /\ IsSuccess(stdout[2]) /\ stdout[2].scores = <<100, 850, 50>>
    /\ stdout[2].label = JStr("class_1")
    /\ IsSuccess(stdout[3]) /\ stdout[3].scores = <<720, 180, 100>>
    /\ stdout[3].label = JStr("healthy")

----------------------------------------------------------------------------
(* Startup failure of the daemon                                           *)

\* The configured model path names an artifact one of the loaders the daemon
\* tries can load.
DaemonModelLoads ==
    /\ environ.DISEASE_MODEL_PATH # ""
    /\ \/ legacy_keras /\ ModelArtifact(environ.DISEASE_MODEL_PATH).legacy
       \/ ModelArtifact(environ.DISEASE_MODEL_PATH).tf

\* C11: a daemon whose model path is missing or empty, or whose model fails
\* to load, never gets past the load: it writes nothing to the output
\* stream (no ready line, no response), reads no input line, and when it has
\* ended its exit status is 1 with the failure on the error stream; a
\* daemon that reads or answers lines always holds a loaded model.
C11_StartupFailureIsFatal ==
    program = "daemon" =>
      /\ ~DaemonModelLoads =>
           /\ pc \in {"start", "load_model", "exit"}
           /\ stdout = <<>>
           /\ consumed = <<>>
           /\ model = "none"
           /\ pc = "exit" => (exit_code = 1 /\ Len(stderr) = 1)
      /\ (pc \in {"announce", "read", "body"} \/ stdout # <<>> \/ consumed # <<>>) =>
           (model \in Models /\ DaemonModelLoads)

\* Both loaders failed on a path that has no artifact while two lines were
\* waiting on the input stream: exit status 1, nothing written, nothing read.
C11_Witness ==
    /\ program = "daemon"
    /\ pc = "exit"
    /\ exit_code = 1
    /\ environ.DISEASE_MODEL_PATH = "models/absent.h5"
    /\ loads = <<"tf_keras", "tf.keras">>
    /\ Len(stdin_lines) = 2
    /\ stdout = <<>>
    /\ consumed = <<>>

----------------------------------------------------------------------------
(* Request isolation                                                       *)

\* The image a request line carries: the one its payload encodes, "junk" for
\* bytes that are no image, "undecodable" for text that is not base64.
CarriedImage(l) ==
    LET payload == l.text.members.image.v IN
    IF \E i \in Images \cup {"junk"} : payload = "b64:" \o i
    THEN CHOOSE i \in Images \cup {"junk"} : payload = "b64:" \o i
    ELSE "undecodable"

\* The scores a model gives an image through the gate and the ensemble of
\* the daemon, <<>> when the model raises on a view it is asked to score.
IsolatedScores(m, img) ==
    LET r1 == ScoreRow(m, IdentityView(img))
        r2 == ScoreRow(m, MirrorView(img))
        r3 == ScoreRow(m, BrightView(img))
    IN IF r1 = <<>> THEN <<>>
       ELSE IF \E j \in 1..Len(r1) : r1[j] >= 720 THEN r1
       ELSE IF r2 = <<>> \/ r3 = <<>> THEN <<>>
       ELSE [j \in 1..Len(r1) |-> (r1[j] + r2[j] + r3[j]) \div 3]

\* The response to a request line written from the line, the model and the
\* label list alone: what a daemon answers that has seen no other line.
IsolatedResponse(m, lbls, l) ==
    IF ~ParsesAsJson(l)
    THEN [id |-> JNull, error |-> "Expecting value: line 1 column 1 (char 0)"]
    ELSE IF ~IsObject(l)
    THEN [id |-> JNull, error |-> "'" \o l.text.t \o "' object has no attribute 'get'"]
    ELSE IF ~HasImage(l)
    THEN [id |-> IdField(l), error |-> "Missing image field"]
    ELSE IF CarriedImage(l) = "undecodable"
    THEN [id |-> IdField(l), error |-> "Incorrect padding"]
    ELSE IF CarriedImage(l) = "junk"
    THEN [id |-> IdField(l), error |-> "cannot identify image file"]
    ELSE LET sc == IsolatedScores(m, CarriedImage(l)) IN
         IF sc = <<>>
         THEN [id |-> IdField(l), error |-> "Graph execution error"]
         ELSE [id |-> IdField(l),
               label |-> IF lbls # <<>> /\ BestIndex(sc) < Len(lbls)
                         THEN lbls[BestIndex(sc) + 1]
                         ELSE ClassName(BestIndex(sc)),
               confidence |-> sc[BestIndex(sc) + 1],
               scores |-> sc]

\* C12: the response of the daemon to each non-blank line is the response
\* determined by that line, the loaded model and the loaded labels alone,
\* whatever lines came before it (malformed, id-carrying or failing) and at
\* whatever position it stands; so the same line gets the same response in
\* any two runs over the same model and labels, and no id, error or score
\* of an earlier line shows in a later response.
C12_ResponseDependsOnOwnLineOnly ==
    Serving =>
      \A k \in 1..Len(Handled) :
        stdout[k + 1] = IsolatedResponse(model, labels, Handled[k])

\* A request with id 42 failed in scoring; the next line, which carries no
\* id, is answered with id null and the scores of its own image.
C12_Witness ==
    /\ Serving
    /\ model = "m3"
    /\ Len(Handled) = 2
    /\ Handled[1] = Request([id |-> JNum("42"), image |-> JStr("b64:leafF")])
    /\ stdout[2] = [id |-> JNum("42"), error |-> "Graph execution error"]
    /\ Handled[2] = Request([image |-> JStr("b64:leafC")])
    /\ IsSuccess(stdout[3])
    /\ stdout[3].id = JNull
    /\ stdout[3].scores = <<400, 350, 250>>

----------------------------------------------------------------------------
(* Loader strategies                                                       *)

\* The model path the running program was given.
GivenModelPath == IF program = "daemon" THEN environ.DISEASE_MODEL_PATH ELSE args.model

IsStrategy(name) == name \in {"tf_keras", "tf.keras"}

\* The loader strategies attempted so far, in order.
StrategiesTried == SelectSeq(loads, IsStrategy)

\* C13: once load_disease_model has been called (daemon or CLI), the
\* strategies it attempted are tf_keras first, only when tf_keras is
\* available, then tf.keras, only when tf_keras was unavailable or failed;
\* the model is that of the first strategy able to load the path; the call
\* raised only when no attempted strategy could load it, and the message is
\* the failure of each attempted strategy, in the order tried, joined by
\* " | ".
C13_LoaderOrderAndErrors ==
    StrategiesTried # <<>> =>
      LET art == ModelArtifact(GivenModelPath)
          first_ok == legacy_keras /\ art.legacy
      IN
      /\ StrategiesTried =
           (IF legacy_keras THEN <<"tf_keras">> ELSE <<>>) \o
           (IF first_ok THEN <<>> ELSE <<"tf.keras">>)
      /\ (first_ok \/ art.tf) =>
           /\ model = art.model
           /\ model \in Models
           /\ program = "daemon" => stderr = <<>>
      /\ ~(first_ok \/ art.tf) =>
           /\ model = "none"
           /\ exit_code = 1
           /\ stderr =
                IF legacy_keras
                THEN << "tf_keras loader failed: cannot load " \o GivenModelPath
                        \o " | " \o
                        "tf.keras loader failed: cannot load " \o GivenModelPath >>
                ELSE << "tf.keras loader failed: cannot load " \o GivenModelPath >>

\* tf_keras failed on a Keras-3 artifact and tf.keras loaded it: both were
\* tried, in that order, and no error was raised.
C13_Witness ==
    /\ program = "daemon"
    /\ legacy_keras
    /\ GivenModelPath = "models/crop.keras"
    /\ StrategiesTried = <<"tf_keras", "tf.keras">>
    /\ model = "m2"
    /\ stderr = <<>>
    /\ Serving

----------------------------------------------------------------------------
(* Blank lines                                                             *)

\* C14: the pass of the daemon's loop body over a blank (empty or
\* whitespace-only) line writes nothing to the output or error stream, makes
\* no scoring call, and changes nothing the handling of a later line reads:
\* model, labels, request_id, the unread input and the loader log are as
\* before and the daemon is back at reading; and what a daemon has written
\* is what it would have written had its blank lines not been sent.
C14_BlankLineIsSkipped ==
    /\ [][ (program = "daemon" /\ pc = "body" /\ IsBlank(raw_line)) =>
             /\ pc' = "read"
             /\ stdout' = stdout
             /\ stderr' = stderr
             /\ calls' = calls
             /\ model' = model
             /\ labels' = labels
             /\ main_request_id' = main_request_id
             /\ stdin_lines' = stdin_lines
             /\ loads' = loads
             /\ exit_code' = exit_code ]_vars
    /\ [](Serving =>
           /\ Len(stdout) = 1 + Len(Handled)
           /\ \A k \in 1..Len(Handled) :
                stdout[k + 1] = LoopBody(JNull, model, labels, Handled[k]).out[1])

\* A whitespace-only line came between the ready line and a request: the
\* output is the ready line and the response to the request, nothing else.
C14_Witness ==
    /\ Serving
    /\ pc = "read"
    /\ Len(consumed) = 2
    /\ IsBlank(consumed[1])
    /\ consumed[1].pad # ""
    /\ ~IsBlank(consumed[2])
    /\ Len(stdout) = 2
    /\ IsSuccess(stdout[2])

----------------------------------------------------------------------------
(* End of input                                                            *)

\* C15: a daemon that has announced itself ends, over any finite closed
\* input stream, with exit status 0 and nothing on the error stream; it
\* leaves the loop only from the read position with no unread line left,
\* and when it has ended every line of the stream was read and every
\* non-blank line has its response on the output stream.
C15_EndOfInputTerminates ==
    /\ [][ (Serving /\ pc' = "exit") => (pc = "read" /\ stdin_lines = <<>>) ]_vars
    /\ []( (Serving /\ pc = "exit") =>
             /\ exit_code = 0
             /\ stderr = <<>>
             /\ stdin_lines = <<>>
             /\ Len(stdout) = 1 + Len(NonBlank)
             /\ \A k \in 1..Len(NonBlank) :
                  IsError(stdout[k + 1]) \/ IsSuccess(stdout[k + 1]) )
    /\ Serving ~> (pc = "exit" /\ exit_code = 0 /\ stderr = <<>> /\ stdin_lines = <<>>)

\* A stream of a failing request and a blank line was read to its end: one
\* response, exit status 0.
C15_Witness ==
    /\ Serving
    /\ pc = "exit"
    /\ exit_code = 0
    /\ stderr = <<>>
    /\ Len(consumed) = 2
    /\ IsError(stdout[2])
    /\ IsBlank(consumed[2])
    /\ Len(stdout) = 2

----------------------------------------------------------------------------
(* Best index and confidence                                               *)

\* The name a result gives to index i under the loaded label list.
NameAt(i) == IF labels # <<>> /\ i < Len(labels) THEN labels[i + 1] ELSE ClassName(i)

\* C16: every success result (daemon and CLI) names an index b of its score
\* list at which the list has its maximum and before which every score is
\* strictly smaller (the lowest index of the maximum, so index 0 for an
\* all-equal or all-zero list), and its confidence is scores[b], the
\* largest reported score.
C16_BestIndexIsLowestMaximum ==
    \A r \in SuccessResults :
      /\ \E b \in 0..(Len(r.scores) - 1) :
           /\ r.label = NameAt(b)
           /\ \A j \in 1..Len(r.scores) : r.scores[j] <= r.scores[b + 1]
           /\ \A j \in 1..b : r.scores[j] < r.scores[b + 1]
           /\ r.confidence = r.scores[b + 1]
      /\ (\A j \in 1..Len(r.scores) : r.scores[j] = r.scores[1]) =>
           (r.label = NameAt(0) /\ r.confidence = r.scores[1])

\* An all-zero score vector (every view of the image scored 0 by the
\* two-class model) was reported with index 0: "class_0", confidence 0.
C16_Witness ==
    /\ Serving
    /\ labels = <<>>
    /\ model = "m2"
    /\ Len(stdout) = 2
    /\ IsSuccess(stdout[2])
    /\ stdout[2].scores = <<0, 0>>
    /\ stdout[2].label = JStr("class_0")
    /\ stdout[2].confidence = 0

----------------------------------------------------------------------------
(* The loaded model and labels are fixed                                   *)

\* C17: the daemon calls the model loader and the label loader only at
\* startup, each at most once and before the ready line; no step of a daemon
\* that has written the ready line (reading, skipping a blank line,
\* answering a request with a success or an error, ending) changes the
\* model, the label list or the loader log; and all success responses of
\* one process carry score lists of one length.
C17_ModelAndLabelsFixed ==
    /\ [][ program = "daemon" =>
             /\ loads' # loads => (pc \in {"load_model", "load_labels"} /\ stdout = <<>>)
             /\ (model' # model \/ labels' # labels) =>
                  (pc \in {"load_model", "load_labels"} /\ stdout = <<>>)
             /\ Serving => (model' = model /\ labels' = labels /\ loads' = loads) ]_vars
    /\ [](program = "daemon" =>
           /\ Cardinality({k \in 1..Len(loads) : loads[k] = "load_labels"}) <= 1
           /\ \A j, k \in 1..Len(loads) : (IsStrategy(loads[j]) /\ loads[j] = loads[k]) => j = k
           /\ Serving =>
                /\ model \in Models
                /\ StrategiesTried # <<>>
                /\ (environ.DISEASE_LABELS_PATH # "") =>
                     loads[Len(loads)] = "load_labels"
           /\ \A r1, r2 \in SuccessResults : Len(r1.scores) = Len(r2.scores))

\* Two requests answered with success by one daemon: both score lists have
\* the three entries of the model loaded at startup, and the loader log is
\* that of startup.
C17_Witness ==
    /\ Serving
    /\ model = "m3"
    /\ loads = <<"tf_keras", "load_labels">>
    /\ Len(stdout) = 3
    /\ IsSuccess(stdout[2]) /\ Len(stdout[2].scores) = 3
    /\ IsSuccess(stdout[3]) /\ Len(stdout[3].scores) = 3
    /\ stdout[2].scores # stdout[3].scores

----------------------------------------------------------------------------
(* The one-shot CLI against the daemon                                     *)

\* What the daemon does with a request that carries the image the CLI read,
\* under the model and the labels the CLI loaded.
DaemonOnSameImage ==
    LoopBody(JNull, model, labels, Request([image |-> JStr("b64:" \o image_bytes)]))

\* C18: a run of the CLI that loaded a model and classified an image made
\* the scoring calls the daemon makes for that image (same number, same
\* batches), succeeded exactly when the daemon answers with a success, and
\* wrote the daemon's success response without its id field.
C18_CliEqualsDaemon ==
    (program = "cli" /\ pc = "exit" /\ model \in Models /\ image_bytes \in Images) =>
      LET d == DaemonOnSameImage IN
      /\ calls = d.calls
      /\ (exit_code = 0) <=> IsSuccess(d.out[1])
      /\ exit_code = 0 =>
           stdout = << [label |-> d.out[1].label,
                        confidence |-> d.out[1].confidence,
                        scores |-> d.out[1].scores] >>

----------------------------------------------------------------------------
(* The CLI reads the image before it loads the model                       *)

\* The input of the CLI can be read and is empty: an empty file at the
\* --image path, or an empty input stream when no --image is given.
CliInputEmpty ==
    IF args.image # "None"
    THEN image_file.exists /\ image_file.readable /\ image_file.text = ""
    ELSE stdin_bytes = ""

\* C19: in the CLI a loader is called only when non-empty image bytes have
\* been read; a run over an empty input (file or stream) ends with status
\* 1 and the message "No image bytes received on stdin" without any loader
\* call, model or labels; and no run calls a loader strategy, or the label
\* loader, twice.
C19_ImageCheckedBeforeLoad ==
    program = "cli" =>
      /\ (loads # <<>> \/ model # "none" \/ labels # <<>> \/ pc \in {"cli_load", "cli_classify"}) =>
           (image_bytes # "" /\ image_bytes = CliInputBytes)
      /\ (pc = "exit" /\ ~args.help /\ args.model # "None" /\ CliInputEmpty) =>
           /\ exit_code = 1
           /\ stderr = <<"No image bytes received on stdin">>
           /\ stdout = <<>>
           /\ loads = <<>>
           /\ model = "none"
           /\ labels = <<>>
      /\ \A j, k \in 1..Len(loads) : loads[j] = loads[k] => j = k

\* An empty file at the --image path, with a loadable model and a labels
\* file given: the run ended with the error and no loader call.
C19_Witness ==
    /\ program = "cli"
    /\ pc = "exit"
    /\ args.image = "leaf.jpg"
    /\ image_file = File(TRUE, TRUE, "")
    /\ args.model = "models/crop.h5"
    /\ args.labels = "labels.json"
    /\ exit_code = 1
    /\ stderr = <<"No image bytes received on stdin">>
    /\ loads = <<>>
    /\ model = "none"

----------------------------------------------------------------------------
(* split_stratified partitions its input                                   *)

\* The input paths of a class, and the returned paths filed under it.
InputOf(label) == {image_paths[k] : k \in {j \in 1..Len(image_paths) : split_labels[j] = label}}
TrainOf(label) == {train_paths[k] : k \in {j \in 1..Len(train_paths) : train_labels[j] = label}}
ValOf(label) == {val_paths[k] : k \in {j \in 1..Len(val_paths) : val_labels[j] = label}}

\* C20: when split_stratified has returned, its four lists pair every path
\* with a label; for every class that has an input image the training and
\* the validation paths of the class are disjoint, together they are the
\* input paths of the class and no path is listed twice, the training
\* paths are not empty, and a class of one image has it in training and
\* nothing in validation; a class without input has nothing returned.
C20_SplitPartitionsEachClass ==
    (program = "split_stratified" /\ pc = "returned") =>
      /\ Len(train_labels) = Len(train_paths)
      /\ Len(val_labels) = Len(val_paths)
      /\ Len(train_paths) + Len(val_paths) = Len(image_paths)
      /\ \A label \in ClassLabels :
           /\ TrainOf(label) \cap ValOf(label) = {}
           /\ TrainOf(label) \cup ValOf(label) = InputOf(label)
           /\ InputOf(label) # {} => TrainOf(label) # {}
           /\ Cardinality(InputOf(label)) = 1 => ValOf(label) = {}

\* A class of one image next to a class of three, val_split 0.2: the single
\* image is in training, the other class gave one image to validation.
C20_Witness ==
    /\ program = "split_stratified"
    /\ pc = "returned"
    /\ val_split = 20
    /\ split_labels = <<"Wheat_Rust", "Rice_Blast", "Rice_Blast", "Rice_Blast">>
    /\ train_paths[1] = ImagePath(1)
    /\ train_labels = <<"Wheat_Rust", "Rice_Blast", "Rice_Blast">>
    /\ val_labels = <<"Rice_Blast">>
    /\ val_paths = <<ImagePath(3)>>

============================================================================
